---- MODULE Spec2Model ----
(***************************************************************************)
(* Smart-QGEN browser-side control logic.                                  *)
(*                                                                         *)
(*   app/static/js/configure.js          the configuration page            *)
(*   NEP_QGEN/app/static/js/upload.js    the upload page                   *)
(*                                                                         *)
(* Each page is a single-threaded event loop: a user event, a timer tick   *)
(* or the settling of a fetch promise chain runs to completion before the  *)
(* next one starts, so every handler is one atomic action.                 *)
(***************************************************************************)
EXTENDS Integers, Sequences, FiniteSets, TLC

VARIABLES
    \* ---- configure.js ----
    questionSets,       \* module-level array of {id, type, marks, count}
    totalMarks,         \* module-level running total
    setElements,        \* children of #questionSets: the data-set-id of each
    totalMarksDisplay,  \* #totalMarksDisplay: textContent and className
    total_marks,        \* value of the #total_marks select (a digit string)
    sessionIdInput,     \* input[name="session_id"]: present or not, and its value
    selectedTopics,     \* closure variable of setupTopicTags
    loadingModal,       \* style.display of #loading
    generateProgress,   \* style.width of #generateProgress, in percent
    genRequests,        \* one entry per fetch of handleSubmit in flight, with
                        \* the closure (progress, progressInterval) of its call
    \* ---- upload.js ----
    selectedFiles,      \* module-level array of the chosen files
    uploadBtn,          \* #uploadBtn: its disabled property
    uploadProgress,     \* #uploadProgress: whether its class list holds "hidden"
    progressBar,        \* style.width of #progressBar, in percent
    progressText,       \* textContent of #progressText
    uploadRequests,     \* one entry per fetch of uploadFiles in flight, with
                        \* the closure (progress, progressInterval) of its call
    \* ---- both pages ----
    notification,       \* last call of the showNotification sink
    redirectTimers,     \* pending setTimeout(() => location.href = redirect)
    location,           \* window.location.href
    \* ---- history ----
    issuedIds           \* the ids addQuestionSet has given out so far

builderVars == <<questionSets, totalMarks, setElements, totalMarksDisplay,
                 total_marks>>
generateVars == <<sessionIdInput, selectedTopics, loadingModal,
                  generateProgress, genRequests>>
uploadVars == <<selectedFiles, uploadBtn, uploadProgress, progressBar,
                progressText, uploadRequests>>
windowVars == <<redirectTimers, location>>
\* What the question-set handlers leave alone.
elsewhere == <<generateVars, uploadVars, windowVars>>

vars == <<builderVars, generateVars, uploadVars, notification, windowVars,
          issuedIds>>

-----------------------------------------------------------------------------
(* Bounds of the model.                                                    *)

\* addQuestionSet is not offered once #questionSets holds this many set
\* elements (it never holds fewer elements than the list holds sets).
MaxSets == 2

-----------------------------------------------------------------------------
(* JavaScript values.                                                      *)
(* A string of decimal digits is a sequence of digits; "" is <<>>.         *)
(* Numbers are the integers the page can produce, all >= 0, plus NaN,      *)
(* which is encoded as a value outside that range.                         *)

NaN == -1

RECURSIVE DigitsValue(_)
DigitsValue(s) ==
    IF Len(s) = 0 THEN 0
    ELSE 10 * DigitsValue(SubSeq(s, 1, Len(s) - 1)) + s[Len(s)]

\* parseInt(string): the leading decimal digits; NaN when there are none.
parseInt(s) == IF Len(s) = 0 THEN NaN ELSE DigitsValue(s)

\* a * b and a + b on numbers: NaN is absorbing.
Times(a, b) == IF a = NaN \/ b = NaN THEN NaN ELSE a * b
Plus(a, b) == IF a = NaN \/ b = NaN THEN NaN ELSE a + b

\* Math.abs(a - b)
MathAbsDiff(a, b) ==
    IF a = NaN \/ b = NaN THEN NaN
    ELSE IF a >= b THEN a - b ELSE b - a

\* x > n and x <= n: every comparison with NaN is false.
GreaterThan(x, n) == x # NaN /\ x > n
AtMost(x, n) == x # NaN /\ x <= n

-----------------------------------------------------------------------------
(* Inputs the page's controls can deliver.                                 *)

\* <option> values of the q_type select (two of the six).
TypeOptions == {"short", "mcq"}

\* <option> values of the q_marks select (three of the ten).
MarksOptions == {<<1>>, <<5>>, <<1, 5>>}

\* Values of the q_count number input; an emptied input has the value "".
CountInputs == {<<>>, <<1>>, <<2>>}

\* <option> values of the #total_marks select.
TargetOptions == {<<1, 0>>, <<2, 0>>}

-----------------------------------------------------------------------------
(* The showNotification sink.                                              *)

NoNotification == [kind |-> "none", message |-> "", args |-> <<>>]

showNotification(message, args, kind) ==
    notification' = [kind |-> kind, message |-> message, args |-> args]

-----------------------------------------------------------------------------
(* configure.js: the question-set list and its running total.              *)

\* questionSets.reduce((sum, set) => sum + (set.marks * set.count), 0)
RECURSIVE computeTotal(_)
computeTotal(sets) ==
    IF Len(sets) = 0 THEN 0
    ELSE Plus(computeTotal(SubSeq(sets, 1, Len(sets) - 1)),
              Times(sets[Len(sets)].marks, sets[Len(sets)].count))

\* className chosen by updateMarksValidation
validationClass(total, target) ==
    IF AtMost(MathAbsDiff(total, target), 5)
    THEN "text-green-600 font-bold"
    ELSE "text-red-600 font-bold"

\* updateTotalMarks(), run on the list the caller has just written.
updateTotalMarks(sets) ==
    /\ totalMarks' = computeTotal(sets)
    /\ totalMarksDisplay' =
         [text |-> computeTotal(sets),
          className |-> validationClass(computeTotal(sets), parseInt(total_marks))]

\* The change listener of #total_marks: the select takes the chosen value,
\* then updateMarksValidation() recolours the display.
updateMarksValidation(value) ==
    /\ total_marks' = value
    /\ totalMarksDisplay' =
         [totalMarksDisplay EXCEPT
            !.className = validationClass(totalMarks, parseInt(value))]
    /\ UNCHANGED <<questionSets, totalMarks, setElements, notification>>
    /\ UNCHANGED <<elsewhere, issuedIds>>

NewQuestionSet(setIndex) ==
    [id |-> setIndex, type |-> "short", marks |-> 5, count |-> 1]

addQuestionSet ==
    /\ Len(setElements) < MaxSets
    /\ LET setIndex == Len(questionSets)
           sets == Append(questionSets, NewQuestionSet(setIndex))
       IN /\ questionSets' = sets
          /\ setElements' = Append(setElements, setIndex)
          /\ updateTotalMarks(sets)
          /\ issuedIds' = issuedIds \cup {setIndex}
    /\ UNCHANGED <<total_marks, notification, elsewhere>>

\* questionSets[setIndex][property] = value, on a 0-based array.
SetProperty(sets, setIndex, property, value) ==
    [sets EXCEPT ![setIndex + 1] =
        CASE property = "type" -> [@ EXCEPT !.type = value]
          [] property = "marks" -> [@ EXCEPT !.marks = value]
          [] property = "count" -> [@ EXCEPT !.count = value]]

\* if (questionSets[setIndex]): the array has an element at that position.
HasElementAt(sets, setIndex) == setIndex + 1 \in 1..Len(sets)

\* The list updateQuestionSet leaves behind.
updatedSets(sets, setIndex, property, value) ==
    IF HasElementAt(sets, setIndex)
    THEN SetProperty(sets, setIndex, property, value)
    ELSE sets

updateQuestionSet(setIndex, property, value) ==
    IF HasElementAt(questionSets, setIndex)
    THEN LET sets == updatedSets(questionSets, setIndex, property, value)
         IN /\ questionSets' = sets
            /\ updateTotalMarks(sets)
            /\ UNCHANGED <<setElements, total_marks, notification>>
            /\ UNCHANGED <<elsewhere, issuedIds>>
    ELSE UNCHANGED vars

\* The sequence without its first element equal to x:
\* document.querySelector(`[data-set-id="x"]`).remove()
RECURSIVE RemoveFirst(_, _)
RemoveFirst(s, x) ==
    IF Len(s) = 0 THEN s
    ELSE IF Head(s) = x THEN Tail(s)
    ELSE <<Head(s)>> \o RemoveFirst(Tail(s), x)

\* removeQuestionSet without its closing updateTotalMarks().
removeQuestionSet_StaleTotal(setIndex) ==
    IF Len(questionSets) <= 1
    THEN /\ showNotification("At least one question set is required.", <<>>, "error")
         /\ UNCHANGED <<builderVars, elsewhere, issuedIds>>
    ELSE /\ questionSets' = SelectSeq(questionSets, LAMBDA set : set.id # setIndex)
         /\ setElements' = RemoveFirst(setElements, setIndex)
         /\ UNCHANGED <<totalMarks, totalMarksDisplay, total_marks,
                        notification, elsewhere, issuedIds>>

\* removeQuestionSet with the guard length < 1 in place of length <= 1.
removeQuestionSet_LastSetGoes(setIndex) ==
    IF Len(questionSets) < 1
    THEN /\ showNotification("At least one question set is required.", <<>>, "error")
         /\ UNCHANGED <<builderVars, elsewhere, issuedIds>>
    ELSE LET sets == SelectSeq(questionSets, LAMBDA set : set.id # setIndex)
         IN /\ questionSets' = sets
            /\ setElements' = RemoveFirst(setElements, setIndex)
            /\ updateTotalMarks(sets)
            /\ UNCHANGED <<total_marks, notification, elsewhere, issuedIds>>

removeQuestionSet(setIndex) ==
    IF Len(questionSets) <= 1
    THEN /\ showNotification("At least one question set is required.", <<>>, "error")
         /\ UNCHANGED <<builderVars, elsewhere, issuedIds>>
    ELSE LET sets == SelectSeq(questionSets, LAMBDA set : set.id # setIndex)
         IN /\ questionSets' = sets
            /\ setElements' = RemoveFirst(setElements, setIndex)
            /\ updateTotalMarks(sets)
            /\ UNCHANGED <<total_marks, notification, elsewhere, issuedIds>>

-----------------------------------------------------------------------------
(* configure.js: topic tags.                                               *)

Topics == {"algebra", "calculus"}

\* The click listener of a .topic-tag; #priority_topics then holds the
\* selected topics joined by ", ", which the model reads off selectedTopics.
toggleTopic(topic) ==
    /\ selectedTopics' =
         IF \E k \in 1..Len(selectedTopics) : selectedTopics[k] = topic
         THEN SelectSeq(selectedTopics, LAMBDA t : t # topic)
         ELSE Append(selectedTopics, topic)
    /\ UNCHANGED <<builderVars, sessionIdInput, loadingModal, generateProgress,
                   genRequests, uploadVars, notification, windowVars, issuedIds>>

-----------------------------------------------------------------------------
(* What the server can answer to a fetch.  The promise is rejected (a      *)
(* transport error), or it resolves to a response with an ok flag (status  *)
(* 2xx or not) and a body: JSON whose status field is "success", JSON      *)
(* whose status field is anything else, or text that is not JSON.          *)

Responses ==
    {[rejected |-> TRUE, ok |-> FALSE, body |-> "none"]}
    \cup [rejected : {FALSE}, ok : BOOLEAN,
          body : {"success", "other", "unparseable"}]

\* data.redirect of a success body.
RedirectTarget == "/redirect"

-----------------------------------------------------------------------------
(* configure.js: handleSubmit and the promise chain of its fetch.          *)

\* At most this many generation requests are in flight at once.
MaxGenRequests == 2

\* progress += Math.random() * 10 : the increments the model draws.
GenIncrements == {0, 9}

\* JSON.stringify writes NaN as null.
JsonNull == -2
jsonNumber(x) == IF x = NaN THEN JsonNull ELSE x

\* questionSets.map(set => ({type, marks, count})), as JSON.stringify writes it.
questionConfig(sets) ==
    [k \in 1..Len(sets) |->
        [type |-> sets[k].type,
         marks |-> jsonNumber(sets[k].marks),
         count |-> jsonNumber(sets[k].count)]]

\* The body handleSubmit sends (the free-text fields title, subject,
\* difficulty and instructions are passed through and left out).  The page
\* never reads it again, so the entry of the request does not keep it.
formData ==
    [total_marks |-> total_marks,
     priority_topics |-> selectedTopics,
     question_config |-> questionConfig(questionSets)]

\* genRequests holds the calls of handleSubmit whose progressInterval is
\* running, each with the closure of the call: the session id of its URL, the
\* progress counter, and whether the promise chain of its fetch has run.
\* clearInterval(progressInterval) takes the entry away.
handleSubmit ==
    IF ~sessionIdInput.present \/ sessionIdInput.value = ""
    THEN /\ showNotification("Session expired. Please start over.", <<>>, "error")
         /\ UNCHANGED <<builderVars, generateVars, uploadVars, windowVars,
                        issuedIds>>
    ELSE IF Len(questionSets) = 0
    THEN /\ showNotification("Please add at least one question set.", <<>>, "error")
         /\ UNCHANGED <<builderVars, generateVars, uploadVars, windowVars,
                        issuedIds>>
    ELSE IF GreaterThan(MathAbsDiff(totalMarks, parseInt(total_marks)), 5)
    THEN /\ showNotification("Total marks should be close to target marks.",
                             <<totalMarks, parseInt(total_marks)>>, "error")
         /\ UNCHANGED <<builderVars, generateVars, uploadVars, windowVars,
                        issuedIds>>
    ELSE /\ Len(genRequests) < MaxGenRequests
         /\ loadingModal' = "flex"
         /\ genRequests' = Append(genRequests,
              [sessionId |-> sessionIdInput.value, progress |-> 0,
               settled |-> FALSE])
         /\ UNCHANGED <<builderVars, sessionIdInput, selectedTopics,
                        generateProgress, uploadVars, notification, windowVars,
                        issuedIds>>

\* One run of the setInterval callback of request r.
genProgressTick(r, increment) ==
    /\ LET progress == IF genRequests[r].progress + increment > 80 THEN 80
                       ELSE genRequests[r].progress + increment
       IN /\ genRequests' = [genRequests EXCEPT ![r].progress = progress]
          /\ generateProgress' = progress
    /\ UNCHANGED <<builderVars, sessionIdInput, selectedTopics, loadingModal,
                   uploadVars, notification, windowVars, issuedIds>>

\* The sequence without its element at position r.
RemoveAt(s, r) == SubSeq(s, 1, r - 1) \o SubSeq(s, r + 1, Len(s))

\* clearInterval(progressInterval) in the closure of request r.
clearInterval(requests, r) == RemoveAt(requests, r)

\* error.message of what the promise chain throws on a response.
errorMessage(response, fallback) ==
    IF response.rejected THEN "Failed to fetch"
    ELSE IF ~response.ok THEN "HTTP status"
    ELSE IF response.body = "unparseable" THEN "Unexpected token"
    ELSE fallback

\* The .catch handler without loadingModal.style.display = 'none'.
genCatch_ModalStays(r, message) ==
    /\ genRequests' = clearInterval(genRequests, r)
    /\ showNotification("Generation failed: " \o message, <<>>, "error")
    /\ UNCHANGED loadingModal

\* The .catch handler of request r.
genCatch(r, message) ==
    /\ genRequests' = clearInterval(genRequests, r)
    /\ showNotification("Generation failed: " \o message, <<>>, "error")
    /\ loadingModal' = "none"

\* The promise chain of request r, run on the server's answer.
genSettle(r, response) ==
    /\ IF response.rejected \/ ~response.ok \/ response.body = "unparseable"
       THEN /\ genCatch(r, errorMessage(response, ""))
            /\ UNCHANGED <<generateProgress, redirectTimers>>
       ELSE /\ generateProgress' = 100
            /\ IF response.body = "success"
               THEN /\ genRequests' = clearInterval(genRequests, r)
                    /\ showNotification("Question paper generated successfully!",
                                        <<>>, "success")
                    /\ redirectTimers' = redirectTimers \cup {RedirectTarget}
                    /\ UNCHANGED loadingModal
               ELSE /\ genCatch(r, errorMessage(response, "Generation failed"))
                    /\ UNCHANGED redirectTimers
    /\ UNCHANGED <<builderVars, sessionIdInput, selectedTopics, uploadVars,
                   location, issuedIds>>

\* A pending redirect timer fires.
redirect(target) ==
    /\ target \in redirectTimers
    /\ location' = target
    /\ redirectTimers' = redirectTimers \ {target}
    /\ UNCHANGED <<builderVars, generateVars, uploadVars, notification,
                   issuedIds>>

-----------------------------------------------------------------------------
(* upload.js: the file selection and the upload.                           *)

\* At most this many upload requests are in flight at once.
MaxUploadRequests == 2

\* progress += Math.random() * 15 : the increments the model draws.
UploadIncrements == {0, 14}

\* The file lists a drop or a pick can deliver.
FileLists == {<<>>, <<"notes.pdf">>, <<"notes.pdf", "scan.png">>}

\* What the upload handlers leave alone.
configureVars == <<builderVars, generateVars, issuedIds>>

\* uploadBtn.disabled = selectedFiles.length === 0, on the list just written.
updateUploadButton(files) == uploadBtn' = [disabled |-> Len(files) = 0]

handleFiles(files) ==
    /\ selectedFiles' = files
    /\ updateUploadButton(files)
    /\ UNCHANGED <<uploadProgress, progressBar, progressText, uploadRequests,
                   configureVars, notification, windowVars>>

\* array.splice(index, 1): a negative index counts from the end, and an
\* index past either end is clamped to it.
splice(array, index) ==
    LET start == IF index < 0
                 THEN (IF Len(array) + index < 0 THEN 0 ELSE Len(array) + index)
                 ELSE (IF index > Len(array) THEN Len(array) ELSE index)
    IN SubSeq(array, 1, start) \o SubSeq(array, start + 2, Len(array))

\* The indexes window.removeFile is called with in the properties: the
\* positions of the longest selection and as many on either side of them.
RemoveIndexes == -2..3

removeFile(index) ==
    /\ selectedFiles' = splice(selectedFiles, index)
    /\ updateUploadButton(splice(selectedFiles, index))
    /\ UNCHANGED <<uploadProgress, progressBar, progressText, uploadRequests,
                   configureVars, notification, windowVars>>

\* uploadFiles without its first line, the return on an empty selection.
uploadFiles_NoSelectionCheck ==
    /\ Len(uploadRequests) < MaxUploadRequests
    /\ uploadProgress' = [hidden |-> FALSE]
    /\ uploadBtn' = [disabled |-> TRUE]
    /\ uploadRequests' = Append(uploadRequests,
         [files |-> selectedFiles, progress |-> 0, settled |-> FALSE])
    /\ UNCHANGED <<selectedFiles, progressBar, progressText, configureVars,
                   notification, windowVars>>

\* uploadRequests holds the calls of uploadFiles whose progressInterval is
\* running, each with the closure of the call: the files of its FormData, the
\* progress counter, and whether the promise chain of its fetch has run.
\* clearInterval(progressInterval) takes the entry away.
uploadFiles ==
    IF Len(selectedFiles) = 0
    THEN UNCHANGED vars
    ELSE /\ Len(uploadRequests) < MaxUploadRequests
         /\ uploadProgress' = [hidden |-> FALSE]
         /\ uploadBtn' = [disabled |-> TRUE]
         /\ uploadRequests' = Append(uploadRequests,
              [files |-> selectedFiles, progress |-> 0, settled |-> FALSE])
         /\ UNCHANGED <<selectedFiles, progressBar, progressText, configureVars,
                        notification, windowVars>>

\* One run of the setInterval callback of request r.
uploadProgressTick(r, increment) ==
    /\ LET progress == IF uploadRequests[r].progress + increment > 90 THEN 90
                       ELSE uploadRequests[r].progress + increment
       IN /\ uploadRequests' = [uploadRequests EXCEPT ![r].progress = progress]
          /\ progressBar' = progress
    /\ UNCHANGED <<selectedFiles, uploadBtn, uploadProgress, progressText,
                   configureVars, notification, windowVars>>

\* The .catch handler without its clearInterval(progressInterval): the
\* chain has run and the interval goes on.
uploadCatch_IntervalRuns(r, message) ==
    /\ uploadRequests' = [uploadRequests EXCEPT ![r].settled = TRUE]
    /\ showNotification("Upload failed: " \o message, <<>>, "error")
    /\ uploadProgress' = [hidden |-> TRUE]
    /\ uploadBtn' = [disabled |-> FALSE]

\* The .catch handler of request r.
uploadCatch(r, message) ==
    /\ uploadRequests' = clearInterval(uploadRequests, r)
    /\ showNotification("Upload failed: " \o message, <<>>, "error")
    /\ uploadProgress' = [hidden |-> TRUE]
    /\ uploadBtn' = [disabled |-> FALSE]

\* The promise chain without the setTimeout of its success branch.
uploadSettle_NoRedirect(r, response) ==
    /\ IF response.rejected \/ response.body = "unparseable"
       THEN /\ uploadCatch(r, IF response.rejected THEN "Failed to fetch"
                              ELSE "Unexpected token")
            /\ UNCHANGED <<progressBar, progressText, redirectTimers>>
       ELSE /\ progressBar' = 100
            /\ IF response.body = "success"
               THEN /\ uploadRequests' = clearInterval(uploadRequests, r)
                    /\ progressText' = "Processing complete!"
                    /\ showNotification("Files uploaded successfully!",
                                        <<>>, "success")
                    /\ UNCHANGED <<uploadProgress, uploadBtn, redirectTimers>>
               ELSE /\ uploadCatch(r, "Upload failed")
                    /\ UNCHANGED <<progressText, redirectTimers>>
    /\ UNCHANGED <<selectedFiles, configureVars, location>>

\* The promise chain of request r, run on the server's answer:
\* response.json() is called whatever response.ok is.
uploadSettle(r, response) ==
    /\ IF response.rejected \/ response.body = "unparseable"
       THEN /\ uploadCatch(r, IF response.rejected THEN "Failed to fetch"
                              ELSE "Unexpected token")
            /\ UNCHANGED <<progressBar, progressText, redirectTimers>>
       ELSE /\ progressBar' = 100
            /\ IF response.body = "success"
               THEN /\ uploadRequests' = clearInterval(uploadRequests, r)
                    /\ progressText' = "Processing complete!"
                    /\ showNotification("Files uploaded successfully!",
                                        <<>>, "success")
                    /\ redirectTimers' = redirectTimers \cup {RedirectTarget}
                    /\ UNCHANGED <<uploadProgress, uploadBtn>>
               ELSE /\ uploadCatch(r, "Upload failed")
                    /\ UNCHANGED <<progressText, redirectTimers>>
    /\ UNCHANGED <<selectedFiles, configureVars, location>>

-----------------------------------------------------------------------------
(* Events of the configuration page.  The inline handlers of a set's       *)
(* element pass the setIndex the element was created with.  Handlers run   *)
(* only while the page is the window's document.                           *)

ConfigurePage == "/configure"

ElementIds == {setElements[k] : k \in 1..Len(setElements)}

ClickAddQuestionSet ==
    /\ location = ConfigurePage
    /\ addQuestionSet

ClickRemove ==
    /\ location = ConfigurePage
    /\ \E setIndex \in ElementIds : removeQuestionSet(setIndex)

ChangeType ==
    /\ location = ConfigurePage
    /\ \E setIndex \in ElementIds, v \in TypeOptions :
          updateQuestionSet(setIndex, "type", v)

ChangeMarks ==
    /\ location = ConfigurePage
    /\ \E setIndex \in ElementIds, v \in MarksOptions :
          updateQuestionSet(setIndex, "marks", parseInt(v))

ChangeCount ==
    /\ location = ConfigurePage
    /\ \E setIndex \in ElementIds, v \in CountInputs :
          updateQuestionSet(setIndex, "count", parseInt(v))

ChangeTargetMarks ==
    /\ location = ConfigurePage
    /\ \E v \in TargetOptions : updateMarksValidation(v)

ClickTopic ==
    /\ location = ConfigurePage
    /\ \E topic \in Topics : toggleTopic(topic)

SubmitForm ==
    /\ location = ConfigurePage
    /\ handleSubmit

GenTimerTick ==
    /\ location = ConfigurePage
    /\ \E r \in 1..Len(genRequests), increment \in GenIncrements :
          genProgressTick(r, increment)

GenResponse ==
    /\ location = ConfigurePage
    /\ \E r \in 1..Len(genRequests), response \in Responses :
          ~genRequests[r].settled /\ genSettle(r, response)

RedirectFires == \E target \in redirectTimers : redirect(target)

\* The session_id field as the server rendered it.
SessionIdInputs ==
    {[present |-> FALSE, value |-> ""],
     [present |-> TRUE, value |-> ""],
     [present |-> TRUE, value |-> "abc"]}

\* The upload page before any event: nothing selected, and the template's
\* button disabled and progress block hidden.  upload.js is not loaded on
\* the configuration page, where this state stays as it is.
UploadIdle ==
    /\ selectedFiles = <<>>
    /\ uploadBtn = [disabled |-> TRUE]
    /\ uploadProgress = [hidden |-> TRUE]
    /\ progressBar = 0
    /\ progressText = ""
    /\ uploadRequests = <<>>

\* The state once the DOMContentLoaded handler of configure.js has run:
\* questionSets = [], totalMarks = 0, then addQuestionSet().
Init ==
    /\ total_marks \in TargetOptions
    /\ questionSets = <<NewQuestionSet(0)>>
    /\ setElements = <<0>>
    /\ totalMarks = computeTotal(questionSets)
    /\ totalMarksDisplay =
         [text |-> totalMarks,
          className |-> validationClass(totalMarks, parseInt(total_marks))]
    /\ sessionIdInput \in SessionIdInputs
    /\ selectedTopics = <<>>
    /\ loadingModal = "none"
    /\ generateProgress = 0
    /\ genRequests = <<>>
    /\ UploadIdle
    /\ notification = NoNotification
    /\ redirectTimers = {}
    /\ location = ConfigurePage
    /\ issuedIds = {0}

\* The question-set builder alone, on a page rendered with a session id.
BuilderInit ==
    /\ Init
    /\ sessionIdInput = [present |-> TRUE, value |-> "abc"]

Next ==
    \/ ClickAddQuestionSet
    \/ ClickRemove
    \/ ChangeType
    \/ ChangeMarks
    \/ ChangeCount
    \/ ChangeTargetMarks

Spec == BuilderInit /\ [][Next]_vars

\* Building and submitting: the requests are dispatched and not answered.
SubmitNext ==
    \/ ClickAddQuestionSet
    \/ ClickRemove
    \/ ChangeMarks
    \/ ChangeCount
    \/ SubmitForm

SubmitSpec == Init /\ [][SubmitNext]_vars

\* Editing, submitting and the answers of the server, each answer arriving
\* before the first run of its request's progress timer.
GenerateNext ==
    \/ ChangeCount
    \/ ClickTopic
    \/ SubmitForm
    \/ GenResponse
    \/ RedirectFires

GenerateSpec == Init /\ [][GenerateNext]_vars

\* Submitting the configuration of the page load, with the progress timers.
ProgressNext ==
    \/ SubmitForm
    \/ GenTimerTick
    \/ GenResponse
    \/ RedirectFires

ProgressSpec == Init /\ [][ProgressNext]_vars

-----------------------------------------------------------------------------
(* Events of the upload page.  A disabled button dispatches no click; the  *)
(* remove buttons of the preview carry the positions of the list as it was *)
(* last rendered, which is the current list.                               *)

UploadPage == "/"

DropOrPickFiles ==
    /\ location = UploadPage
    /\ \E files \in FileLists : handleFiles(files)

ClickRemoveFile ==
    /\ location = UploadPage
    /\ \E index \in 0..(Len(selectedFiles) - 1) : removeFile(index)

ClickUpload ==
    /\ location = UploadPage
    /\ ~uploadBtn.disabled
    /\ uploadFiles

UploadTimerTick ==
    /\ location = UploadPage
    /\ \E r \in 1..Len(uploadRequests), increment \in UploadIncrements :
          uploadProgressTick(r, increment)

UploadResponse ==
    /\ location = UploadPage
    /\ \E r \in 1..Len(uploadRequests), response \in Responses :
          ~uploadRequests[r].settled /\ uploadSettle(r, response)

\* configure.js is not loaded on the upload page.
ConfigureIdle ==
    /\ questionSets = <<>>
    /\ totalMarks = 0
    /\ setElements = <<>>
    /\ totalMarksDisplay = [text |-> 0, className |-> ""]
    /\ total_marks = <<>>
    /\ sessionIdInput = [present |-> FALSE, value |-> ""]
    /\ selectedTopics = <<>>
    /\ loadingModal = "none"
    /\ generateProgress = 0
    /\ genRequests = <<>>
    /\ issuedIds = {}

\* The state once the DOMContentLoaded handler of upload.js has run.
UploadInit ==
    /\ UploadIdle
    /\ ConfigureIdle
    /\ notification = NoNotification
    /\ redirectTimers = {}
    /\ location = UploadPage

UploadNext ==
    \/ DropOrPickFiles
    \/ ClickRemoveFile
    \/ ClickUpload
    \/ UploadTimerTick
    \/ UploadResponse
    \/ RedirectFires

UploadSpec == UploadInit /\ [][UploadNext]_vars

\* Selecting, uploading and the answers of the server, each answer arriving
\* before the first run of its request's progress timer.
UploadFlowNext ==
    \/ DropOrPickFiles
    \/ ClickRemoveFile
    \/ ClickUpload
    \/ UploadResponse
    \/ RedirectFires

UploadFlowSpec == UploadInit /\ [][UploadFlowNext]_vars

\* A timer set with setTimeout runs its callback once its delay is over.
UploadFlowFairSpec == UploadFlowSpec /\ WF_vars(RedirectFires)

-----------------------------------------------------------------------------
(* The two progress timers: either page, its submit, the runs of the       *)
(* intervals and the answers of the server.                                *)

TimersInit == Init \/ UploadInit

TimersNext ==
    \/ SubmitForm
    \/ GenTimerTick
    \/ GenResponse
    \/ DropOrPickFiles
    \/ ClickUpload
    \/ UploadTimerTick
    \/ UploadResponse
    \/ RedirectFires

TimersSpec == TimersInit /\ [][TimersNext]_vars

-----------------------------------------------------------------------------
(* Properties of the question-set builder, checked under Spec.             *)

DistinctIds(sets) ==
    \A j, k \in 1..Len(sets) : sets[j].id = sets[k].id => j = k

\* The sum of marks x count over the sets of the list, in the arithmetic of
\* the page: a set whose marks or count is not a number makes it NaN.
RECURSIVE SubtotalSum(_, _)
SubtotalSum(sets, k) ==
    IF k = 0 THEN 0
    ELSE sets[k].marks * sets[k].count + SubtotalSum(sets, k - 1)

LiveTotal ==
    IF \E k \in 1..Len(questionSets) :
          questionSets[k].marks = NaN \/ questionSets[k].count = NaN
    THEN NaN
    ELSE SubtotalSum(questionSets, Len(questionSets))

\* C1: after page load the list of question sets is never empty, whatever
\* sequence of addQuestionSet, updateQuestionSet and removeQuestionSet runs.
C1_NeverEmpty == Len(questionSets) >= 1

\* C2: ids are never reused: no two live question sets have the same id, and
\* a newly added set never receives an id an earlier set, live or removed,
\* had.
C2_IdNeverReused ==
    [][/\ DistinctIds(questionSets')
       /\ Len(questionSets') > Len(questionSets) =>
             questionSets'[Len(questionSets')].id \notin issuedIds]_vars

\* The values updateQuestionSet can be called with for a property.
PropertyValues(property) ==
    CASE property = "type" -> TypeOptions
      [] property = "marks" -> {parseInt(v) : v \in MarksOptions}
      [] property = "count" -> {parseInt(v) : v \in CountInputs}

FieldOf(set, property) ==
    CASE property = "type" -> set.type
      [] property = "marks" -> set.marks
      [] property = "count" -> set.count

\* C3: in every reachable state, updateQuestionSet(id, field, value) sets the
\* field of the live question set whose id is the argument, leaves every
\* other question set as it was, and changes nothing when no live set has
\* that id.
C3_UpdateTargetsId ==
    \A id \in 0..MaxSets, property \in {"type", "marks", "count"} :
      \A value \in PropertyValues(property) :
        LET after == updatedSets(questionSets, id, property, value)
        IN /\ Len(after) = Len(questionSets)
           /\ \A k \in 1..Len(questionSets) :
                /\ after[k].id = questionSets[k].id
                /\ questionSets[k].id = id =>
                      FieldOf(after[k], property) = value
                /\ questionSets[k].id # id => after[k] = questionSets[k]

\* C4: in every reachable state totalMarks, and the total on display, is the
\* sum of marks x count over exactly the live question sets.
C4_TotalIsLiveSum ==
    /\ totalMarks = LiveTotal
    /\ totalMarksDisplay.text = LiveTotal

\* Reached by adding a set, setting it to 2 questions of 15 marks and
\* removing the first set.
C4_Witness ==
    /\ Len(questionSets) = 1
    /\ questionSets[1].id = 1
    /\ questionSets[1].marks = 15
    /\ questionSets[1].count = 2
    /\ totalMarks = 30

RemovalRejected ==
    [kind |-> "error", message |-> "At least one question set is required.",
     args |-> <<>>]

\* C9: removeQuestionSet called while exactly one question set is live shows
\* an error notification and leaves the list and the running total alone.
C9_LastSetStays ==
    [][\A setIndex \in 0..MaxSets :
          (Len(questionSets) = 1 /\ removeQuestionSet(setIndex)) =>
             /\ notification' = RemovalRejected
             /\ questionSets' = questionSets
             /\ totalMarks' = totalMarks]_vars

\* The removal of the only set has been asked for and refused.
C9_Witness ==
    /\ Len(questionSets) = 1
    /\ notification = RemovalRejected

-----------------------------------------------------------------------------
(* Properties of the generation submit, checked under SubmitSpec and       *)
(* GenerateSpec.                                                           *)

SessionPresent == sessionIdInput.present /\ sessionIdInput.value # ""

\* |total - target| <= 5 for the sum over the live sets and the selected
\* target marks; it does not hold of a total that is not a number.
WithinTolerance ==
    /\ LiveTotal # NaN
    /\ parseInt(total_marks) # NaN
    /\ LiveTotal - parseInt(total_marks) <= 5
    /\ parseInt(total_marks) - LiveTotal <= 5

Dispatched == Len(genRequests') = Len(genRequests) + 1

NothingStarted == UNCHANGED <<genRequests, loadingModal, generateProgress>>

\* C7: the submit checks (a) session id present and non-empty, (b) at least
\* one question set, (c) marks tolerance, in this order; the first check
\* that fails decides the error notification and nothing is started; a
\* request is dispatched only when all three hold.
C7_PreconditionsInOrder ==
    [][handleSubmit =>
         IF ~SessionPresent
         THEN /\ notification'.message = "Session expired. Please start over."
              /\ notification'.kind = "error"
              /\ NothingStarted
         ELSE IF Len(questionSets) = 0
         THEN /\ notification'.message = "Please add at least one question set."
              /\ notification'.kind = "error"
              /\ NothingStarted
         ELSE IF ~WithinTolerance
         THEN /\ notification'.message = "Total marks should be close to target marks."
              /\ notification'.kind = "error"
              /\ NothingStarted
         ELSE Dispatched /\ loadingModal' = "flex"]_vars

\* C8: with a session id and at least one question set, the submit
\* dispatches a request if and only if |total - target| <= 5.
C8_DispatchIffWithinTolerance ==
    [][(handleSubmit /\ SessionPresent /\ Len(questionSets) >= 1) =>
          (Dispatched <=> WithinTolerance)]_vars

\* What C10 counts as a failed generation request.
GenerationFails(response) ==
    response.rejected \/ ~response.ok \/ response.body # "success"

\* C10: when a generation request fails in any way, the loading modal is
\* hidden, a failure notification is shown, no navigation is started, and
\* the question sets, the running total and the selected topics are left as
\* they are.
C10_FailureKeepsConfiguration ==
    [][\A r \in 1..Len(genRequests), response \in Responses :
          (genSettle(r, response) /\ GenerationFails(response)) =>
             /\ loadingModal' = "none"
             /\ notification'.kind = "error"
             /\ redirectTimers' = redirectTimers
             /\ location' = location
             /\ questionSets' = questionSets
             /\ totalMarks' = totalMarks
             /\ selectedTopics' = selectedTopics]_vars

\* A request sent with a topic selected and an edited count has failed with
\* a non-OK status.
C10_Witness ==
    /\ notification.message = "Generation failed: HTTP status"
    /\ loadingModal = "none"
    /\ selectedTopics # <<>>
    /\ totalMarks = 10
    /\ genRequests = <<>>

-----------------------------------------------------------------------------
(* Properties of the upload, checked under UploadSpec.                     *)

\* C5: from dispatch on the upload button stays disabled until that request
\* fails, so no second request is dispatched while one is outstanding or
\* after one has succeeded.
C5_DisabledWhileOutstanding ==
    /\ Len(uploadRequests) <= 1
    /\ (Len(uploadRequests) > 0 \/ redirectTimers # {}) => uploadBtn.disabled

\* What C6 counts as a failed upload response.
UploadFails(response) ==
    response.rejected \/ ~response.ok \/ response.body # "success"

\* C6: an upload response is handled as a failure (failure notification,
\* progress UI hidden, button re-enabled, no navigation) when its status is
\* not 2xx, its body is not JSON or its status field is not "success", and
\* as a success only otherwise.
C6_FailureClassification ==
    [][\A r \in 1..Len(uploadRequests), response \in Responses :
          uploadSettle(r, response) =>
             IF UploadFails(response)
             THEN /\ notification'.kind = "error"
                  /\ uploadProgress'.hidden
                  /\ ~uploadBtn'.disabled
                  /\ redirectTimers' = redirectTimers
                  /\ location' = location
             ELSE /\ notification'.kind = "success"
                  /\ RedirectTarget \in redirectTimers']_vars

\* C11: the file selection is discarded once the upload request is
\* dispatched, whatever the outcome: after a dispatch the selection is empty,
\* so a retry after a failed upload cannot send the previous files again.
C11_SelectionDiscardedAtDispatch ==
    [][(uploadFiles /\ Len(uploadRequests') > Len(uploadRequests)) =>
          selectedFiles' = <<>>]_vars

-----------------------------------------------------------------------------
(* The body of the generation request, checked under SubmitSpec.           *)

\* handleSubmit gets past its three checks on this list.
PassesChecks(sets) ==
    /\ SessionPresent
    /\ Len(sets) # 0
    /\ ~GreaterThan(MathAbsDiff(computeTotal(sets), parseInt(total_marks)), 5)

\* A value of a set's control as JSON carries it.
Transmitted(property, value) ==
    IF property = "type" THEN value ELSE jsonNumber(value)

\* C12: the question_config a successful submit sends is the list, in
\* creation order, of exactly the live question sets, each reduced to its
\* type, marks and count as last set by the user: whatever control of
\* whatever set on the page the user changes last, a submit that follows and
\* passes the checks sends one entry per set on the page, without the id,
\* and the entry of the changed set carries the value.
C12_ConfigIsLiveSets ==
    \A k \in 1..Len(setElements), property \in {"type", "marks", "count"} :
      \A value \in PropertyValues(property) :
        LET after == updatedSets(questionSets, setElements[k], property, value)
            config == questionConfig(after)
        IN PassesChecks(after) =>
              /\ Len(config) = Len(setElements)
              /\ DOMAIN config[k] = {"type", "marks", "count"}
              /\ FieldOf(config[k], property) = Transmitted(property, value)

-----------------------------------------------------------------------------
(* Properties of the upload submit, checked under UploadFlowSpec.          *)

\* C13: an upload submit made while the file selection is empty dispatches
\* no request, starts no progress timer and changes no state.
C13_EmptySubmitIsNoOp ==
    [][/\ Len(selectedFiles) = 0 =>
             Len(uploadRequests') <= Len(uploadRequests)
       /\ (uploadFiles /\ Len(selectedFiles) = 0) => UNCHANGED vars]_vars

\* The button takes a click while nothing is selected: the selection was
\* emptied during an upload, and the upload then failed.
C13_Witness ==
    /\ location = UploadPage
    /\ Len(selectedFiles) = 0
    /\ ~uploadBtn.disabled
    /\ notification.kind = "error"
    /\ uploadRequests = <<>>

\* The body of the response declares success.
DeclaresSuccess(response) == ~response.rejected /\ response.body = "success"

UploadSucceeded ==
    [kind |-> "success", message |-> "Files uploaded successfully!",
     args |-> <<>>]

\* C14: when an upload request receives a response declaring success, the
\* progress bar is set to 100%, a success notification is shown and the
\* redirect is scheduled, without a failure notification and without
\* re-enabling the button; the navigation to the redirect target then
\* eventually happens.
C14_SuccessLeadsToRedirect ==
    /\ [][\A r \in 1..Len(uploadRequests), response \in Responses :
            (uploadSettle(r, response) /\ DeclaresSuccess(response)) =>
               /\ progressBar' = 100
               /\ notification' = UploadSucceeded
               /\ RedirectTarget \in redirectTimers'
               /\ location' = location
               /\ uploadBtn' = uploadBtn]_vars
    /\ (RedirectTarget \in redirectTimers) ~> (location = RedirectTarget)

\* The upload has succeeded and the page has gone to the redirect target.
C14_Witness ==
    /\ location = RedirectTarget
    /\ progressBar = 100
    /\ progressText = "Processing complete!"
    /\ redirectTimers = {}

\* C15: removeFile(index) removes exactly the entry at that position and
\* keeps the others in their order when the index is within the selection;
\* for every index outside the range of the selection it leaves the
\* selection unchanged.
C15_RemoveByPosition ==
    \A index \in RemoveIndexes :
      LET after == splice(selectedFiles, index)
      IN IF index >= 0 /\ index < Len(selectedFiles)
         THEN /\ Len(after) = Len(selectedFiles) - 1
              /\ \A k \in 1..Len(after) :
                    after[k] = selectedFiles[IF k <= index THEN k ELSE k + 1]
         ELSE after = selectedFiles

-----------------------------------------------------------------------------
(* Properties of the progress timers, checked under TimersSpec and         *)
(* UploadSpec.                                                             *)

\* C16: the progress timer started at dispatch is cancelled when the request
\* completes or fails: once the response or transport error of a submission
\* has been handled, no run of that submission's timer changes the progress
\* bar, for uploads and for generations.  The timers that run are those of
\* the entries of the two lists: none is the timer of a handled submission.
C16_NoTimerAfterSettle ==
    /\ \A r \in 1..Len(uploadRequests) : ~uploadRequests[r].settled
    /\ \A r \in 1..Len(genRequests) : ~genRequests[r].settled

\* An upload has failed in transport after two runs of its timer, and no
\* timer is left.
C16_Witness ==
    /\ notification.message = "Upload failed: Failed to fetch"
    /\ progressBar = 28
    /\ uploadRequests = <<>>

\* During a submission: a request is outstanding before and after the step.
UploadOutstanding == Len(uploadRequests) > 0 /\ Len(uploadRequests') > 0
GenerationOutstanding == Len(genRequests) > 0 /\ Len(genRequests') > 0

\* C17: during every submission, from dispatch until its response or
\* transport error is handled, the value the progress bar shows never
\* decreases and never exceeds the ceiling (90 for upload, 80 for
\* generation); it reaches 100 only when a response has arrived.  This
\* holds for a retry after a failed submission as well.
C17_ProgressMonotoneBelowCeiling ==
    [][/\ Len(uploadRequests') > 0 => progressBar' <= 90
       /\ UploadOutstanding => progressBar' >= progressBar
       /\ (progressBar' = 100 /\ progressBar # 100) =>
             Len(uploadRequests') < Len(uploadRequests)
       /\ Len(genRequests') > 0 => generateProgress' <= 80
       /\ GenerationOutstanding => generateProgress' >= generateProgress
       /\ (generateProgress' = 100 /\ generateProgress # 100) =>
             Len(genRequests') < Len(genRequests)]_vars

\* C18: while a generation request is outstanding the generation submit is
\* disabled, so at most one generation request is in flight at any time and
\* no second progress timer is started before the first response has been
\* handled.
C18_OneGenerationInFlight ==
    [][/\ Len(genRequests') <= 1
       /\ Len(genRequests) > 0 => Len(genRequests') <= Len(genRequests)]_vars

-----------------------------------------------------------------------------
(* Properties of the upload button, checked under UploadFlowSpec.          *)

\* C19: in every reachable state of the upload page, whatever the
\* interleaving of selecting, removing, submitting and answers, the upload
\* button is enabled only if the file selection is non-empty; a failed
\* upload never leaves it enabled over an empty selection.
C19_EnabledOnlyWithSelection ==
    ~uploadBtn.disabled => Len(selectedFiles) > 0

-----------------------------------------------------------------------------
(* Properties of the total's indicator, checked under Spec.                *)

\* The indicator of the running total shows pass.
ShowsPass == totalMarksDisplay.className = "text-green-600 font-bold"

\* The tolerance check of handleSubmit lets the submit through.
SubmitCheckPasses ==
    ~GreaterThan(MathAbsDiff(totalMarks, parseInt(total_marks)), 5)

\* C20: after every add, update or remove of a question set and after every
\* change of the target marks, the indicator of the running total shows
\* pass exactly when the tolerance check of the generation submit would
\* pass in that state, that is when |total - target| <= 5.
C20_IndicatorAgreesWithSubmit ==
    /\ ShowsPass <=> SubmitCheckPasses
    /\ ShowsPass <=> WithinTolerance

====
